---- MODULE Spec2Model ----
\* DweloLockAccessory (src/src/index.ts, lines 195-396): the lock command
\* reconciliation engine of one lock instance, on Node's single event loop.
\* Every action is the synchronous section of one handler, from the event that
\* starts it to its next await of the network or to its end, so every state
\* is a stable point.
EXTENDS Integers, Sequences, FiniteSets, TLC

\* ---------------------------------------------------------------- bounds
MaxCmds == 2        \* toggleLock calls that may be awaiting their response
MaxPolls == 1       \* poll() sensor queries that may be awaiting their response
MaxReconciles == 1  \* reconcileTargetWithCurrent() queries awaiting their response
MaxSensors == 2     \* readings in one response of ReadSpec

\* ---------------------------------------------------------------- values
NULL == "null"
T_SECURED == "Target.SECURED"
T_UNSECURED == "Target.UNSECURED"
SECURED == "Current.SECURED"
UNSECURED == "Current.UNSECURED"
UNKNOWN == "Current.UNKNOWN"
NOT_KEPT == "notKept"  \* a history that the specification does not keep
NONE == "none"

Targets == {T_SECURED, T_UNSECURED}
LockStates == {SECURED, UNSECURED, UNKNOWN}
\* CharacteristicValue handed to the onSet handler: the two targets and a stray value.
Values == Targets \cup {"Target.other"}

LockLocked == [sensorType |-> "lock", value |-> "locked"]
LockUnlocked == [sensorType |-> "lock", value |-> "unlocked"]
Battery == [sensorType |-> "battery", value |-> "80"]
Contact == [sensorType |-> "contact", value |-> "closed"]
\* What dweloAPI.sensors may resolve to in Spec: no reading, no lock reading,
\* one lock reading alone or behind another reading, two lock readings that
\* disagree. Battery readings are drawn in ReadSpec, where the battery
\* attributes are followed.
Responses ==
  { <<>>, <<Contact>>, <<LockLocked>>, <<Contact, LockUnlocked>>,
    <<LockLocked, LockUnlocked>>, <<LockUnlocked, LockLocked>> }
AutoLockMinutesSet == {0, 1}

VARIABLES
  inFlight,         \* this.inFlight
  desiredTarget,    \* this.desiredTarget
  watchdog,         \* this.watchdog: 0 is undefined, else the id of a Timeout
  wdPending,        \* watchdog Timeouts set and neither fired nor cleared
  autoLockTimer,    \* this.autoLockTimer: 0 is undefined, else the id of a Timeout
  alPending,        \* auto-lock Timeouts set and neither fired nor cleared
  autoLockMinutes,  \* this.autoLockMinutes
  targetAttr,       \* value pushed to the LockTargetState characteristic
  currentAttr,      \* value pushed to the LockCurrentState characteristic
  cmds,             \* toggleLock calls awaiting their response, in issue order
  dispatched,       \* history, kept by DispatchSpec only: target of the toggleLock
                    \* call issued last, NULL before the first
  polls,            \* poll() queries awaiting their response
  recs,             \* reconcileTargetWithCurrent() queries awaiting their response
  batteryLevel,     \* value pushed to the BatteryLevel characteristic, <<>> if none
  batteryStatus,    \* value pushed to the StatusLowBattery characteristic
  last              \* the handler section that ran last (history)

vars == <<inFlight, desiredTarget, watchdog, wdPending, autoLockTimer, alPending,
          autoLockMinutes, targetAttr, currentAttr, cmds, dispatched, polls, recs,
          batteryLevel, batteryStatus, last>>

session == <<inFlight, desiredTarget, targetAttr>>
wdVars == <<watchdog, wdPending>>
alVars == <<autoLockTimer, alPending>>
battVars == <<batteryLevel, batteryStatus>>

\* ---------------------------------------------------------------- helpers
Remove(s, i) == [j \in 1..(Len(s) - 1) |-> IF j < i THEN s[j] ELSE s[j + 1]]

\* A Timeout object distinct from every one still referenced.
FreshTimer(used) ==
  CHOOSE i \in 1..(Cardinality(used) + 1) : i \notin used /\ \A j \in 1..(i - 1) : j \in used

\* thrown: the section ended by an exception that left the handler uncaught.
Step(op, branch, arg, flag) ==
  [op |-> op, branch |-> branch, arg |-> arg, flag |-> flag, thrown |-> FALSE]
Thrown(op, branch, arg, flag) ==
  [op |-> op, branch |-> branch, arg |-> arg, flag |-> flag, thrown |-> TRUE]

\* sensors.find(s => s.sensorType === type): index of the first match, 0 if none.
Find(sensors, type) ==
  IF \E i \in 1..Len(sensors) : sensors[i].sensorType = type
  THEN CHOOSE i \in 1..Len(sensors) :
         /\ sensors[i].sensorType = type
         /\ \A j \in 1..(i - 1) : sensors[j].sensorType # type
  ELSE 0

\* A translation that reports SECURED when any lock reading is "locked".
toLockState_AnyLocked(sensors) ==
  IF Find(sensors, "lock") = 0 THEN UNKNOWN
  ELSE IF \E i \in 1..Len(sensors) :
            sensors[i].sensorType = "lock" /\ sensors[i].value = "locked"
       THEN SECURED ELSE UNSECURED

\* toLockState (277-285)
toLockState(sensors) ==
  LET i == Find(sensors, "lock")
  IN IF i = 0 THEN UNKNOWN
     ELSE IF sensors[i].value = "locked" THEN SECURED ELSE UNSECURED

\* value === T.SECURED ? T.SECURED : T.UNSECURED
NormalizeTarget(value) == IF value = T_SECURED THEN T_SECURED ELSE T_UNSECURED

\* A mapping that leaves the target absent when the state is unknown.
TargetOf_AbsentWhenUnknown(state) ==
  IF state = SECURED THEN T_SECURED ELSE IF state = UNSECURED THEN T_UNSECURED ELSE NULL

\* current -> target, as reconcileTargetWithCurrent maps it
TargetOf(state) == IF state = SECURED THEN T_SECURED ELSE T_UNSECURED

\* target -> current, as poll's completion check maps it
DesiredState(target) == IF target = T_SECURED THEN SECURED ELSE UNSECURED

\* ---------------------------------------------------------------- battery
\* The characters of the sensor values the model uses.
Chars(value) ==
  CASE value = "80" -> <<"8", "0">>
    [] value = "20" -> <<"2", "0">>
    [] value = "7%" -> <<"7", "%">>
    [] value = "low" -> <<"l", "o", "w">>
    [] OTHER -> <<>>

DigitValue(c) ==
  CASE c = "0" -> 0 [] c = "1" -> 1 [] c = "2" -> 2 [] c = "3" -> 3 [] c = "4" -> 4
    [] c = "5" -> 5 [] c = "6" -> 6 [] c = "7" -> 7 [] c = "8" -> 8 [] c = "9" -> 9
    [] OTHER -> -1

NaN == [nan |-> TRUE, n |-> 0]
Num(n) == [nan |-> FALSE, n |-> n]

\* parseInt(value, 10): the longest prefix of decimal digits, NaN if it is empty.
RECURSIVE ParseDigits(_, _, _)
ParseDigits(cs, i, acc) ==
  IF i > Len(cs) \/ DigitValue(cs[i]) < 0 THEN acc
  ELSE ParseDigits(cs, i + 1, 10 * acc + DigitValue(cs[i]))
parseInt(value) ==
  LET cs == Chars(value)
  IN IF cs = <<>> \/ DigitValue(cs[1]) < 0 THEN NaN ELSE Num(ParseDigits(cs, 1, 0))

\* batteryLevel > 20, which is false of NaN (294)
AboveLow(level) == ~level.nan /\ level.n > 20

\* setBatteryLevel (287-302)
setBatteryLevel(sensors) ==
  LET i == Find(sensors, "battery")
  IN IF i = 0
     THEN UNCHANGED battVars
     ELSE LET level == parseInt(sensors[i].value)
          IN /\ batteryLevel' = <<level>>
             /\ batteryStatus' = IF AboveLow(level) THEN "BATTERY_LEVEL_NORMAL"
                                  ELSE "BATTERY_LEVEL_LOW"

WatchdogArmed == wdPending # {}
AutoLockArmed == alPending # {}

Init ==
  /\ inFlight = FALSE
  /\ desiredTarget = NULL
  /\ watchdog = 0
  /\ wdPending = {}
  /\ autoLockTimer = 0
  /\ alPending = {}
  /\ autoLockMinutes \in AutoLockMinutesSet
  /\ targetAttr = NONE
  /\ currentAttr = NONE
  /\ cmds = <<>>
  /\ dispatched = NOT_KEPT
  /\ polls = 0
  /\ recs = <<>>
  /\ batteryLevel = <<>>
  /\ batteryStatus = NONE
  /\ last = Step("init", "-", "-", FALSE)

\* ---------------------------------------------------------------- timers
\* clearTimeout(handle)
ClearTimeout(pending, handle) == pending \ {handle}

\* A watchdog that is set without clearing the previous Timeout.
startWatchdog_NoClear ==
  LET t == FreshTimer(wdPending \cup {watchdog})
  IN /\ watchdog' = t
     /\ wdPending' = wdPending \cup {t}

\* startWatchdog (378-387): clear the previous Timeout if any, set a new one.
startWatchdog ==
  LET cleared == IF watchdog # 0 THEN ClearTimeout(wdPending, watchdog) ELSE wdPending
      t == FreshTimer(cleared \cup {watchdog})
  IN /\ watchdog' = t
     /\ wdPending' = cleared \cup {t}

\* An auto-lock timer that is set whatever autoLockMinutes is.
startAutoLockTimer_NoGuard ==
  LET cleared == IF autoLockTimer # 0 THEN ClearTimeout(alPending, autoLockTimer)
                 ELSE alPending
      t == FreshTimer(cleared \cup {autoLockTimer})
  IN /\ autoLockTimer' = t
     /\ alPending' = cleared \cup {t}

\* startAutoLockTimer (352-369)
startAutoLockTimer ==
  IF autoLockMinutes <= 0
  THEN UNCHANGED alVars
  ELSE LET cleared == IF autoLockTimer # 0 THEN ClearTimeout(alPending, autoLockTimer)
                      ELSE alPending
           t == FreshTimer(cleared \cup {autoLockTimer})
       IN /\ autoLockTimer' = t
          /\ alPending' = cleared \cup {t}

\* A cancel that forgets the handle without clearing the Timeout.
cancelAutoLockTimer_HandleOnly ==
  /\ autoLockTimer' = 0
  /\ UNCHANGED alPending

\* cancelAutoLockTimer (371-376)
cancelAutoLockTimer ==
  IF autoLockTimer # 0
  THEN /\ alPending' = ClearTimeout(alPending, autoLockTimer)
       /\ autoLockTimer' = 0
  ELSE UNCHANGED alVars

\* ---------------------------------------------------------------- session manager
\* History: the flag of a poll step says an auto-lock timer was armed when the
\* poll's response arrived, the flag of a step that begins a session says a
\* watchdog Timeout was pending when it began. History kept on the awaited calls: current = issued by the session started
\* last; givenUp = its session's watchdog has expired; superseded = a session
\* began while the reconciliation was awaiting its query.
Supersede(tasks, field, value) ==
  [i \in 1..Len(tasks) |-> [tasks[i] EXCEPT ![field] = value]]

\* sendLockCommand up to its await (304-307): the toggleLock request is issued.
sendLockCommand(target) ==
  /\ cmds' = Append(Supersede(cmds, "current", FALSE), [current |-> TRUE, givenUp |-> FALSE])
  /\ dispatched' = IF dispatched = NOT_KEPT THEN NOT_KEPT ELSE target

\* the duplicate test of setTargetLockState (261)
Coalesces(target) == inFlight /\ desiredTarget = target

\* A test that lets every accepted request begin a session.
BeginsSession_Always == TRUE

\* the test that begins a session (270)
BeginsSession == ~inFlight

\* A session manager without single flight: every request dispatches and rearms.
setTargetLockState_NoSingleFlight(op, value) ==
  LET target == NormalizeTarget(value)
  IN /\ desiredTarget' = target
     /\ targetAttr' = target
     /\ Len(cmds) < MaxCmds
     /\ inFlight' = TRUE
     /\ sendLockCommand(target)
     /\ startWatchdog
     /\ recs' = Supersede(recs, "superseded", TRUE)
     /\ last' = Step(op, IF inFlight THEN "retarget" ELSE "begin", target, FALSE)

\* setTargetLockState (256-275), which has no await: it runs to its end.
setTargetLockState(op, value) ==
  LET target == NormalizeTarget(value)
  IN IF Coalesces(target)
     THEN /\ UNCHANGED <<session, wdVars, cmds, dispatched, recs>>
          /\ last' = Step(op, "coalesced", target, FALSE)
     ELSE /\ desiredTarget' = target
          /\ targetAttr' = target
          /\ IF BeginsSession
             THEN /\ Len(cmds) < MaxCmds
                  /\ inFlight' = TRUE
                  /\ sendLockCommand(target)
                  /\ startWatchdog
                  /\ recs' = Supersede(recs, "superseded", TRUE)
                  /\ last' = Step(op, "begin", target, WatchdogArmed)
             ELSE /\ UNCHANGED <<inFlight, wdVars, cmds, dispatched, recs>>
                  /\ last' = Step(op, "retarget", target, FALSE)

\* The onSet handler of LockTargetState (220).
SetTargetLockState(value) ==
  /\ setTargetLockState("setTargetLockState", value)
  /\ UNCHANGED <<alVars, battVars, autoLockMinutes, currentAttr, polls>>

\* The auto-lock Timeout fires (360-367).
AutoLockExpire(t) ==
  /\ t \in alPending
  /\ alPending' = alPending \ {t}
  /\ UNCHANGED autoLockTimer
  /\ setTargetLockState("autoLockExpire", T_SECURED)
  /\ UNCHANGED <<battVars, autoLockMinutes, currentAttr, polls>>

\* reconcileTargetWithCurrent up to the await inside getLockState (389-390, 237-238)
reconcileTargetWithCurrent(origin) ==
  /\ Len(recs) < MaxReconciles
  /\ recs' = Append(recs, [origin |-> origin, superseded |-> FALSE])

\* toggleLock resolves: sendLockCommand ends (307, 313).
ToggleOk(i) ==
  /\ i \in 1..Len(cmds)
  /\ UNCHANGED dispatched
  /\ cmds' = Remove(cmds, i)
  /\ last' = Step("toggleOk", "-", "-", cmds[i].givenUp /\ ~cmds[i].current)
  /\ UNCHANGED <<session, wdVars, alVars, battVars, autoLockMinutes, currentAttr, polls, recs>>

\* A catch block that reconciles without ending the session.
ToggleFail_KeepsSession(i) ==
  /\ i \in 1..Len(cmds)
  /\ UNCHANGED dispatched
  /\ cmds' = Remove(cmds, i)
  /\ Len(recs) < MaxReconciles
  /\ recs' = Append(recs, [origin |-> "dispatch", superseded |-> FALSE])
  /\ last' = Step("toggleFail", "-", "-", cmds[i].givenUp /\ ~cmds[i].current)
  /\ UNCHANGED <<session, wdVars, alVars, battVars, autoLockMinutes, currentAttr, polls>>

\* toggleLock rejects: the catch block up to reconcile's await (308-311).
ToggleFail(i) ==
  /\ i \in 1..Len(cmds)
  /\ UNCHANGED dispatched
  /\ cmds' = Remove(cmds, i)
  /\ inFlight' = FALSE
  /\ reconcileTargetWithCurrent("dispatch")
  /\ last' = Step("toggleFail", "-", "-", cmds[i].givenUp /\ ~cmds[i].current)
  /\ UNCHANGED <<desiredTarget, targetAttr, wdVars, alVars, battVars, autoLockMinutes, currentAttr, polls>>

\* An expiry callback that reconciles without ending the session.
WatchdogExpire_KeepsSession(t) ==
  /\ t \in wdPending
  /\ wdPending' = wdPending \ {t}
  /\ Len(recs) < MaxReconciles
  /\ recs' = Append(recs, [origin |-> "watchdog", superseded |-> FALSE])
  /\ last' = Step("watchdogExpire", "-", "-", FALSE)
  /\ UNCHANGED <<session, watchdog, alVars, battVars, autoLockMinutes, currentAttr, cmds, dispatched, polls>>

\* The watchdog Timeout fires (382-385).
WatchdogExpire(t) ==
  /\ t \in wdPending
  /\ wdPending' = wdPending \ {t}
  /\ UNCHANGED watchdog
  /\ inFlight' = FALSE
  /\ reconcileTargetWithCurrent("watchdog")
  /\ UNCHANGED dispatched
  /\ cmds' = [i \in 1..Len(cmds) |->
                IF cmds[i].current THEN [cmds[i] EXCEPT !.givenUp = TRUE] ELSE cmds[i]]
  /\ last' = Step("watchdogExpire", "-", "-", FALSE)
  /\ UNCHANGED <<desiredTarget, targetAttr, alVars, battVars, autoLockMinutes, currentAttr, polls>>

\* A reconciliation that does not push the new target to the characteristic.
ReconcileReturn_NoUpdateValue(i, sensors) ==
  /\ i \in 1..Len(recs)
  /\ recs' = Remove(recs, i)
  /\ desiredTarget' = TargetOf(toLockState(sensors))
  /\ last' = Step("reconcileReturn", recs[i].origin, toLockState(sensors), recs[i].superseded)
  /\ setBatteryLevel(sensors)
  /\ UNCHANGED <<inFlight, targetAttr, wdVars, alVars, autoLockMinutes, currentAttr, cmds, dispatched, polls>>

\* A reconciliation that reads the state and leaves the requested target.
ReconcileReturn_NoOverwrite(i, sensors) ==
  /\ i \in 1..Len(recs)
  /\ recs' = Remove(recs, i)
  /\ last' = Step("reconcileReturn", recs[i].origin, toLockState(sensors), recs[i].superseded)
  /\ setBatteryLevel(sensors)
  /\ UNCHANGED <<session, wdVars, alVars, autoLockMinutes, currentAttr, cmds, dispatched, polls>>

\* The sensors query of a reconciliation resolves (390-394).
ReconcileReturn(i, sensors) ==
  /\ i \in 1..Len(recs)
  /\ recs' = Remove(recs, i)
  /\ desiredTarget' = TargetOf(toLockState(sensors))
  /\ targetAttr' = desiredTarget'
  /\ last' = Step("reconcileReturn", recs[i].origin, toLockState(sensors), recs[i].superseded)
  /\ setBatteryLevel(sensors)
  /\ UNCHANGED <<inFlight, wdVars, alVars, autoLockMinutes, currentAttr, cmds, dispatched, polls>>

\* The sensors query of a reconciliation rejects: getLockState and
\* reconcileTargetWithCurrent throw, and nothing catches (390, 311, 385).
ReconcileFail(i) ==
  /\ i \in 1..Len(recs)
  /\ recs' = Remove(recs, i)
  /\ last' = Thrown("reconcileFail", recs[i].origin, "-", recs[i].superseded)
  /\ UNCHANGED <<session, wdVars, alVars, battVars, autoLockMinutes, currentAttr, cmds, dispatched, polls>>

\* ---------------------------------------------------------------- poller
\* The interval fires: poll() up to its await (224, 315-317).
PollTick ==
  /\ polls < MaxPolls
  /\ polls' = polls + 1
  /\ last' = Step("pollTick", "-", "-", FALSE)
  /\ UNCHANGED <<session, wdVars, alVars, battVars, autoLockMinutes, currentAttr, cmds, dispatched, recs>>

\* the completion test of poll (333-339)
Completes(currentState) ==
  /\ inFlight
  /\ desiredTarget # NULL
  /\ currentState = DesiredState(desiredTarget)

\* The sensors query of a poll resolves (318-346).
PollReturn(sensors) ==
  LET currentState == toLockState(sensors)
  IN /\ polls > 0
     /\ polls' = polls - 1
     /\ currentAttr' = currentState
     /\ IF currentState = UNSECURED
        THEN IF autoLockTimer = 0 THEN startAutoLockTimer ELSE UNCHANGED alVars
        ELSE IF currentState = SECURED THEN cancelAutoLockTimer ELSE UNCHANGED alVars
     /\ IF Completes(currentState)
        THEN /\ inFlight' = FALSE
             /\ wdPending' = IF watchdog # 0 THEN ClearTimeout(wdPending, watchdog)
                             ELSE wdPending
             /\ UNCHANGED watchdog
             /\ last' = Step("poll", "completed", currentState, AutoLockArmed)
        ELSE /\ UNCHANGED <<inFlight, wdVars>>
             /\ last' = Step("poll", "-", currentState, AutoLockArmed)
     /\ setBatteryLevel(sensors)
     /\ UNCHANGED <<desiredTarget, targetAttr, autoLockMinutes, cmds, dispatched, recs>>

\* The sensors query of a poll rejects: the catch block logs (347-349).
PollFail ==
  /\ polls > 0
  /\ polls' = polls - 1
  /\ last' = Step("pollFail", "-", "-", FALSE)
  /\ UNCHANGED <<session, wdVars, alVars, battVars, autoLockMinutes, currentAttr, cmds, dispatched, recs>>

Next ==
  \/ \E value \in Values : SetTargetLockState(value)
  \/ \E t \in alPending : AutoLockExpire(t)
  \/ \E i \in 1..Len(cmds) : ToggleOk(i)
  \/ \E i \in 1..Len(cmds) : ToggleFail(i)
  \/ \E t \in wdPending : WatchdogExpire(t)
  \/ \E i \in 1..Len(recs), sensors \in Responses : ReconcileReturn(i, sensors)
  \/ \E i \in 1..Len(recs) : ReconcileFail(i)
  \/ PollTick
  \/ \E sensors \in Responses : PollReturn(sensors)
  \/ PollFail

\* ---------------------------------------------------------------- reads
\* The handlers that read the sensors, applied once each to every response of
\* up to MaxSensors readings, from states the accessory can be in. The onGet
\* handlers change nothing but the battery attributes, so under Spec, whose
\* responses hold no battery reading, they are stuttering steps.
BatteryLow == [sensorType |-> "battery", value |-> "20"]
BatteryPercent == [sensorType |-> "battery", value |-> "7%"]
BatteryMalformed == [sensorType |-> "battery", value |-> "low"]
LockJammed == [sensorType |-> "lock", value |-> "jammed"]
Sensor ==
  {LockLocked, LockUnlocked, LockJammed, Battery, BatteryLow, BatteryPercent, BatteryMalformed}

RECURSIVE SeqsUpTo(_, _)
SeqsUpTo(S, n) ==
  IF n = 0 THEN {<<>>}
  ELSE LET shorter == SeqsUpTo(S, n - 1)
       IN shorter \cup {Append(q, x) : q \in {t \in shorter : Len(t) = n - 1}, x \in S}
ReadResponses == SeqsUpTo(Sensor, MaxSensors)

\* A response that has arrived and is about to be handled.
Input(sensors) ==
  [op |-> "input", branch |-> "-", arg |-> "-", flag |-> FALSE, thrown |-> FALSE,
   sensors |-> sensors]

\* The step of a handler that translated a response, with the response.
Read(op, branch, arg, sensors) ==
  [op |-> op, branch |-> branch, arg |-> arg, flag |-> FALSE, thrown |-> FALSE,
   sensors |-> sensors]

\* After construction, or after one setTargetLockState(target), and after no
\* poll or one that pushed a state and a battery level; one poll() is awaiting
\* its response.
ReadInit ==
  /\ \/ inFlight = FALSE /\ desiredTarget = NULL /\ targetAttr = NONE
        /\ watchdog = 0 /\ wdPending = {} /\ cmds = <<>>
     \/ \E target \in Targets :
          /\ inFlight = TRUE /\ desiredTarget = target /\ targetAttr = target
          /\ watchdog = 1 /\ wdPending = {1}
          /\ cmds = <<[current |-> TRUE, givenUp |-> FALSE]>>
  /\ autoLockMinutes \in AutoLockMinutesSet \cup {-1}
  /\ currentAttr \in {NONE} \cup LockStates
  /\ IF currentAttr = UNSECURED /\ autoLockMinutes > 0
     THEN autoLockTimer = 1 /\ alPending = {1}
     ELSE autoLockTimer = 0 /\ alPending = {}
  /\ dispatched = NOT_KEPT
  /\ polls = 1
  /\ recs = <<>>
  /\ \/ batteryLevel = <<>> /\ batteryStatus = NONE
     \/ batteryLevel = <<Num(80)>> /\ batteryStatus = "BATTERY_LEVEL_NORMAL"
  /\ \E sensors \in ReadResponses : last = Input(sensors)

\* The LockCurrentState onGet handler, getLockState (216, 237-243), resolves.
GetLockState(sensors) ==
  /\ setBatteryLevel(sensors)
  /\ last' = Read("getLockState", "-", toLockState(sensors), sensors)
  /\ UNCHANGED <<session, wdVars, alVars, autoLockMinutes, currentAttr, cmds, dispatched, polls, recs>>

\* Its sensors query rejects: getLockState throws to its caller (238).
GetLockStateFail ==
  /\ last' = Thrown("getLockStateFail", "-", "-", FALSE)
  /\ UNCHANGED <<session, wdVars, alVars, battVars, autoLockMinutes, currentAttr, cmds, dispatched,
                 polls, recs>>

\* The LockTargetState onGet handler, getTargetLockState (219, 245-254).
GetTargetLockState(sensors) ==
  /\ IF desiredTarget # NULL
     THEN /\ UNCHANGED battVars
          /\ last' = Step("getTargetLockState", "cached", desiredTarget, FALSE)
     ELSE /\ setBatteryLevel(sensors)
          /\ last' = Read("getTargetLockState", "fallback", TargetOf(toLockState(sensors)),
                          sensors)
  /\ UNCHANGED <<session, wdVars, alVars, autoLockMinutes, currentAttr, cmds, dispatched, polls, recs>>

ReadNext ==
  \/ last.op = "input" /\ PollReturn(last.sensors)
  \/ last.op = "input" /\ PollFail
  \/ last.op = "input" /\ GetLockState(last.sensors)
  \/ last.op = "input" /\ GetLockStateFail
  \/ last.op = "input" /\ GetTargetLockState(last.sensors)

ReadSpec == ReadInit /\ [][ReadNext]_vars

\* Spec with the history of dispatched targets kept.
DispatchInit ==
  /\ inFlight = FALSE
  /\ desiredTarget = NULL
  /\ watchdog = 0
  /\ wdPending = {}
  /\ autoLockTimer = 0
  /\ alPending = {}
  /\ autoLockMinutes \in AutoLockMinutesSet
  /\ targetAttr = NONE
  /\ currentAttr = NONE
  /\ cmds = <<>>
  /\ dispatched = NULL
  /\ polls = 0
  /\ recs = <<>>
  /\ batteryLevel = <<>>
  /\ batteryStatus = NONE
  /\ last = Step("init", "-", "-", FALSE)

DispatchSpec == DispatchInit /\ [][Next]_vars

\* Armed timers fire and awaited network calls settle.
Fairness ==
  /\ WF_vars(\E t \in wdPending : WatchdogExpire(t))
  /\ WF_vars(\E i \in 1..Len(recs) :
               ReconcileFail(i) \/ \E sensors \in Responses : ReconcileReturn(i, sensors))

Spec == Init /\ [][Next]_vars

\* Auto-lock enabled: its expiries begin sessions too. With it disabled the
\* session variables behave as in the behaviours here in which no auto-lock
\* Timeout fires, and none is required to fire.
LiveInit == Init /\ autoLockMinutes > 0

LiveSpec == LiveInit /\ [][Next]_vars /\ Fairness

\* ---------------------------------------------------------------- claims
RequestOps == {"setTargetLockState", "autoLockExpire"}

\* C1: at every stable point the watchdog timer is armed if and only if
\* inFlight is true.
C1_WatchdogIffInFlight == WatchdogArmed <=> inFlight

\* C2: a setTargetLockState(T) call made while a session is in flight with
\* desiredTarget = T dispatches nothing, leaves the watchdog as it is and
\* changes neither inFlight nor desiredTarget.
C2_DuplicateIsNoOp ==
  [][(last'.op \in RequestOps /\ inFlight /\ desiredTarget = last'.arg)
       => UNCHANGED <<inFlight, desiredTarget, targetAttr, watchdog, wdPending, cmds>>]_vars

\* A duplicate request has been made while the one command of the session is
\* still awaiting its response.
C2_Witness ==
  /\ last.op = "setTargetLockState"
  /\ last.branch = "coalesced"
  /\ inFlight /\ desiredTarget = last.arg
  /\ Len(cmds) = 1

\* C3: once a poll has observed the state implied by the requested target, the
\* session has ended and the watchdog is disarmed, whatever the dispatch did.
C3_Convergence ==
  (last.op = "poll" /\ desiredTarget # NULL /\ last.arg = DesiredState(desiredTarget))
    => (~inFlight /\ ~WatchdogArmed)

\* The target reconcileTargetWithCurrent is to write for an observed state.
MappedTarget(state) == IF state = SECURED THEN T_SECURED ELSE T_UNSECURED

\* C4: the watchdog's expiry ends the session and starts a reconciliation, and
\* the reconciliation overwrites desiredTarget and the target attribute with
\* the target mapped from the lock state it observes.
C4_ExpiryReconciles ==
  [][/\ last'.op = "watchdogExpire"
          => /\ ~inFlight'
             /\ Len(recs') = Len(recs) + 1
             /\ recs'[Len(recs')].origin = "watchdog"
     /\ (last'.op = "reconcileReturn" /\ last'.branch = "watchdog")
          => /\ desiredTarget' = MappedTarget(last'.arg)
             /\ targetAttr' = MappedTarget(last'.arg)]_vars

\* The watchdog's reconciliation has observed an unlocked door: no session is
\* left and the target says unsecured.
C4_Witness ==
  /\ last.op = "reconcileReturn" /\ last.branch = "watchdog"
  /\ last.arg = UNSECURED
  /\ desiredTarget = T_UNSECURED /\ targetAttr = T_UNSECURED
  /\ ~inFlight

\* C5: a failed toggleLock ends the session in the step that handles it, the
\* reconciliation it starts overwrites desiredTarget and the target attribute
\* with the target mapped from the state it observes, and a command is
\* dispatched only by a setTargetLockState call.
C5_DispatchFailure ==
  [][/\ last'.op = "toggleFail"
          => /\ ~inFlight'
             /\ Len(cmds') = Len(cmds) - 1
             /\ Len(recs') = Len(recs) + 1
             /\ recs'[Len(recs')].origin = "dispatch"
     /\ (last'.op = "reconcileReturn" /\ last'.branch = "dispatch")
          => /\ desiredTarget' = MappedTarget(last'.arg)
             /\ targetAttr' = MappedTarget(last'.arg)
             /\ cmds' = cmds
     /\ Len(cmds') > Len(cmds) => last'.op \in RequestOps]_vars

\* The reconciliation of a failed dispatch has returned: no session, no command.
C5_Witness ==
  /\ last.op = "reconcileReturn" /\ last.branch = "dispatch"
  /\ desiredTarget = MappedTarget(last.arg)
  /\ ~inFlight /\ cmds = <<>>

\* C6: the result of a command the watchdog gave up on, arriving after a newer
\* session began, changes neither inFlight nor desiredTarget nor the watchdog.
C6_StaleResultIgnored ==
  [][(last'.op \in {"toggleOk", "toggleFail"} /\ last'.flag)
       => UNCHANGED <<inFlight, desiredTarget, watchdog, wdPending>>]_vars

\* C7: a setTargetLockState(T2) call made while a session is in flight with
\* another desiredTarget records T2 and updates the target attribute, and
\* dispatches nothing, leaves the watchdog alone and keeps inFlight.
C7_RetargetInFlight ==
  [][(last'.op \in RequestOps /\ inFlight /\ desiredTarget # last'.arg)
       => /\ desiredTarget' = last'.arg
          /\ targetAttr' = last'.arg
          /\ inFlight'
          /\ UNCHANGED <<watchdog, wdPending, cmds>>]_vars

\* The target was changed mid-flight: the first command is the only one out,
\* the first watchdog is still the one armed.
C7_Witness ==
  /\ last.op = "setTargetLockState" /\ last.branch = "retarget"
  /\ inFlight /\ desiredTarget = last.arg /\ targetAttr = last.arg
  /\ Len(cmds) = 1 /\ wdPending = {watchdog}

C9_ArmedImpliesUnsecured == AutoLockArmed => currentAttr = UNSECURED

\* C9: an armed auto-lock timer means the last successful poll saw UNSECURED
\* or UNKNOWN, never SECURED.
C9_ArmedImpliesNotSecured ==
  AutoLockArmed => (currentAttr \in {UNSECURED, UNKNOWN} /\ autoLockMinutes > 0)

\* A poll that found no lock reading left the timer of an earlier poll armed.
C9_Witness == AutoLockArmed /\ last.op = "poll" /\ currentAttr = UNKNOWN

\* C10: after a successful poll that observed UNSECURED, with a positive
\* autoLockMinutes, an auto-lock timer is armed.
C10_UnsecuredPollArms ==
  (last.op = "poll" /\ last.arg = UNSECURED /\ autoLockMinutes > 0) => AutoLockArmed

\* C11: a poll that observes SECURED cancels the auto-lock timer an earlier
\* poll armed, so that timer never fires: a timer that fires is one armed
\* since the last SECURED observation, and it is the one the handle names.
C11_SecuredPollCancels ==
  [][/\ (last'.op = "poll" /\ last'.arg = SECURED)
          => (alPending' = {} /\ autoLockTimer' = 0 /\ cmds' = cmds)
     /\ last'.op = "autoLockExpire"
          => (alPending = {autoLockTimer} /\ currentAttr # SECURED)]_vars

\* A poll observed SECURED while a timer armed by an earlier poll was pending;
\* no timer is pending now and nothing was dispatched.
C11_Witness ==
  /\ last.op = "poll" /\ last.arg = SECURED /\ last.flag
  /\ alPending = {} /\ cmds = <<>> /\ ~inFlight

\* ------------------------------------------------------ failures and invariants
\* The steps in which a sensors query rejected.
QueryFailures == {"pollFail", "reconcileFail", "getLockStateFail"}

\* C12: a failed sensors query, of a poll, of an on-demand read or of a
\* reconciliation, changes no state and no error escapes the handler that
\* issued it.
C12_QueryFailureSwallowed ==
  [][last'.op \in QueryFailures
       => /\ ~last'.thrown
          /\ UNCHANGED <<session, wdVars, alVars, battVars, currentAttr>>]_vars

\* C13: a session in flight has a desired target.
C13_InFlightHasTarget == inFlight => desiredTarget \in Targets

\* A reconciliation returned while a later session was in flight.
C13_Witness ==
  /\ inFlight /\ desiredTarget \in Targets
  /\ last.op = "reconcileReturn" /\ last.flag

\* C14: whenever a desired target is present the exposed target attribute
\* equals it, and every step that writes desiredTarget writes the attribute.
C14_TargetAttrFollows ==
  /\ desiredTarget # NULL => targetAttr = desiredTarget
  /\ desiredTarget = NULL => targetAttr = NONE

\* A session is in flight, its target is exposed, and the state polled last is
\* not the one the target implies.
C14_Witness ==
  /\ inFlight /\ desiredTarget # NULL /\ targetAttr = desiredTarget
  /\ currentAttr \in LockStates /\ currentAttr # DesiredState(desiredTarget)

\* C15: with autoLockMinutes <= 0 no auto-lock timer is ever armed and every
\* command is dispatched by a setTargetLockState call of HomeKit.
C15_DisabledNeverArms ==
  [][autoLockMinutes <= 0
       => /\ alPending' = {} /\ autoLockTimer' = 0
          /\ last'.op # "autoLockExpire"
          /\ Len(cmds') > Len(cmds) => last'.op = "setTargetLockState"]_vars

\* The feature is disabled, a poll has just observed UNSECURED, and a command
\* that HomeKit caused is outstanding.
C15_Witness ==
  /\ autoLockMinutes <= 0 /\ last.op = "poll" /\ last.arg = UNSECURED
  /\ cmds # <<>> /\ alPending = {} /\ autoLockTimer = 0

\* C16: at most one watchdog Timeout and at most one auto-lock Timeout are
\* pending, each the one its handle names, so a Timeout that fires is the one
\* set last.
C16_OnePendingTimer ==
  /\ wdPending \subseteq {watchdog} /\ alPending \subseteq {autoLockTimer}
  /\ Cardinality(wdPending) <= 1 /\ Cardinality(alPending) <= 1
  /\ 0 \notin wdPending \cup alPending

\* A session began while the previous watchdog Timeout was still pending: the
\* new Timeout is the only one pending.
C16_Witness ==
  /\ last.branch = "begin" /\ last.flag
  /\ wdPending = {watchdog} /\ watchdog # 0

\* ------------------------------------------------------ translation of readings
\* The first battery reading of the response has a value that is no number.
MalformedBattery(sensors) ==
  \E i \in 1..Len(sensors) :
    /\ sensors[i].sensorType = "battery"
    /\ \A j \in 1..(i - 1) : sensors[j].sensorType # "battery"
    /\ sensors[i].value \notin {"80", "20", "7%"}

\* C17: a response whose battery reading is not numeric changes neither the
\* battery-level nor the low-battery attribute.
C17_MalformedBatterySkipped ==
  [][(last'.op = "getLockState" /\ MalformedBattery(last'.sensors))
       => UNCHANGED battVars]_vars

\* The state the claim gives for a response, written from its three cases.
LockReadings(sensors) == SelectSeq(sensors, LAMBDA s : s.sensorType = "lock")
ExpectedLockState(sensors) ==
  IF LockReadings(sensors) = <<>> THEN UNKNOWN
  ELSE IF Head(LockReadings(sensors)).value = "locked" THEN SECURED ELSE UNSECURED

\* C18: toLockState returns UNKNOWN without a lock reading, SECURED when the
\* first lock reading is "locked", UNSECURED for any other value of it,
\* whatever the session, the timers and the state observed before.
C18_ToLockState ==
  /\ last.op = "getLockState" => last.arg = ExpectedLockState(last.sensors)
  /\ (last.op = "getTargetLockState" /\ last.branch = "fallback")
       => last.arg = TargetOf(ExpectedLockState(last.sensors))

\* Translated while a session was in flight and SECURED had been observed: the
\* first lock reading is not "locked" and a later one is.
C18_Witness ==
  /\ last.op = "getLockState" /\ last.arg = UNSECURED
  /\ Len(last.sensors) = 2 /\ last.sensors[1].value = "jammed"
  /\ last.sensors[2] = LockLocked
  /\ inFlight /\ currentAttr = SECURED

\* ------------------------------------------------------ sessions and reconciliations
\* C19: a reconciliation that was awaiting its query when a session began does
\* not overwrite the desired target or the target attribute of that session.
C19_SuspendedReconcileKeepsTarget ==
  [][(last'.op = "reconcileReturn" /\ last'.flag /\ inFlight)
       => UNCHANGED <<desiredTarget, targetAttr>>]_vars

\* C20: when a poll ends a session as successful, the desired target it
\* matched is the target of the command dispatched for that session.
C20_CompletionMatchesDispatch ==
  (last.op = "poll" /\ last.branch = "completed") => dispatched = desiredTarget

====
